---- MODULE Spec2Model ----
(***************************************************************************)
(* Model of zcode/lengthfieldframedecoder.go: the length-field frame       *)
(* decoder EncoderData, its constructor NewLengthFieldFrameDecoder, the    *)
(* extraction step decode and the public operation Decode.                 *)
(*                                                                         *)
(* One Decode call is the action Decode (the Write and the fresh resp)     *)
(* followed by the iterations of its for-loop, one action per way an       *)
(* iteration ends: ExtractFrame (decode returned a frame, loop again),     *)
(* ReturnResp (decode returned nil, Decode returns resp) and PanicOut      *)
(* (decode panicked, the panic leaves Decode and resp is lost).  pc forces *)
(* the loop to run to its end before the next Decode call starts.          *)
(***************************************************************************)
EXTENDS Integers, Sequences, FiniteSets, TLC

\* ------------------------------------------------------------- bounds ----
\* Total number of bytes fed to one decoder over all its Decode calls.
MaxFed == 4
\* Number of frames one Decode call may collect before the model stops
\* following its loop (the loop itself has no bound in the code).
MaxResp == 4

\* Number of Decode calls with an empty chunk one decoder is given (the code
\* accepts any number; in discarding mode each lowers bytesToDiscard by 2).
MaxEmpty == 2

\* Byte values the model feeds: 0 and 1 give short and oversized lengths,
\* 128 sets the top bit of a signed length field.
ByteVals == {0, 1, 128}

\* The arguments of NewLengthFieldFrameDecoder the model constructs with.
Config(max, offset, length, adjustment, strip) ==
  [maxFrameLength |-> max, lengthFieldOffset |-> offset,
   lengthFieldLength |-> length, lengthAdjustment |-> adjustment,
   initialBytesToStrip |-> strip]
Configs ==
  { Config(1, 0, 1, 0, 0),    \* 1-byte field, one-byte frames only
    Config(2, 0, 1, 0, 0),    \* 1-byte field, header kept
    Config(2, 0, 1, 1, 0),    \* one more byte than the length says
    Config(2, 0, 1, 0, 2),    \* strip larger than the shortest frame
    Config(2, 0, 1, -1, 0),   \* the length counts the header
    Config(2, 1, 1, 0, 0),    \* a header byte before the field
    Config(2, 0, 2, 0, 0),    \* 2-byte signed field, header kept
    Config(3, 0, 2, 0, 2) }   \* 2-byte signed field, header stripped

\* ------------------------------------------------------------- state -----
VARIABLES
  maxFrameLength, lengthFieldOffset, lengthFieldLength, lengthFieldEndOffset,
  lengthAdjustment, initialBytesToStrip, failFast,
  discardingTooLongFrame, tooLongFrameLength, bytesToDiscard,
  in,        \* the accumulation buffer: the unread bytes of this.in
  pc,        \* "idle" between Decode calls, "loop" inside the for-loop
  resp,      \* the frames collected by the running Decode call
  fed,       \* history: every byte passed to Decode so far, in order
  out,       \* history: every frame a Decode call returned to its caller
  err,       \* how the last finished Decode call ended: "none" or the panic
  call,      \* history of the running / last Decode call
  step,      \* history of the last extraction step (decode)
  backing,   \* the array under this.in: its bytes up to its capacity
  off,       \* the read offset of this.in into that array
  growth,    \* how the build's bytes.Buffer sizes a new array
  empties,   \* history: the Decode calls given an empty chunk so far
  oversized  \* history: the oversized frame detected last

config == <<maxFrameLength, lengthFieldOffset, lengthFieldLength,
            lengthFieldEndOffset, lengthAdjustment, initialBytesToStrip,
            failFast>>
vars == <<maxFrameLength, lengthFieldOffset, lengthFieldLength,
          lengthFieldEndOffset, lengthAdjustment, initialBytesToStrip,
          failFast, discardingTooLongFrame, tooLongFrameLength,
          bytesToDiscard, in, pc, resp, fed, out, err, call, step, backing, off,
          growth, empties, oversized>>

\* ------------------------------------------------------------ helpers ----
Min(a, b) == IF a < b THEN a ELSE b

\* buf[n:], for 0 <= n <= len(buf).
Drop(buf, n) == SubSeq(buf, n + 1, Len(buf))

\* Next taking the bytes from the back of the buffer instead of the front.
BufferNext_DropsBack(buf, n) == SubSeq(buf, 1, Len(buf) - Min(n, Len(buf)))

\* bytes.Buffer.Next(n) for n >= 0: advances past min(n, Len()) bytes.
BufferNext(buf, n) == Drop(buf, Min(n, Len(buf)))

\* Sequences over S of length 0..n.
SeqsUpTo(S, n) == UNION {[1..k -> S] : k \in 0..n}

\* The bytes of seq read as one big-endian unsigned integer.
RECURSIVE BigEndian(_)
BigEndian(seq) ==
  IF seq = <<>> THEN 0
  ELSE 256 * BigEndian(SubSeq(seq, 1, Len(seq) - 1)) + seq[Len(seq)]

\* 2^n.
RECURSIVE Pow2(_)
Pow2(n) == IF n = 0 THEN 1 ELSE 2 * Pow2(n - 1)

\* The two's-complement signed value of the unsigned bits-wide integer u.
Signed(u, bits) == IF u >= Pow2(bits - 1) THEN u - Pow2(bits) ELSE u

\* A byte with its top bit set, clear of the sign.
TopByte_ClearsSign(b) == b % 128

\* The most significant byte of a two's-complement integer, as a signed
\* number.
TopByte(b) == IF b >= 128 THEN b - 256 ELSE b

\* v shifted left by the bytes of rest, most significant first.
RECURSIVE ShiftIn(_, _)
ShiftIn(v, rest) ==
  IF rest = <<>> THEN v ELSE ShiftIn(256 * v + Head(rest), Tail(rest))

\* binary.Read into an int16, int32 or int64 in big-endian order: the
\* two's-complement value of the bytes of seq.
SignedBigEndian(seq) == ShiftIn(TopByte(Head(seq)), Tail(seq))

\* ------------------------------------------------- the decoder's code ----
\* What a read past the buffered bytes finds.  buf.Bytes() is a slice of
\* the buffer's array whose capacity may exceed its length, and
\* arr[offset:offset+length] is checked against the capacity only: with
\* enough capacity (cap) the read succeeds and yields the bytes of the array
\* behind the buffered ones (mem), otherwise it panics.
NoStale == [cap |-> FALSE, mem |-> <<>>]

\* --------------------------------------- bytes.Buffer under this.in ------
\* The buffer is the array backing, the read offset off and the unread
\* bytes, which are backing[off : off + Len(unread)].  Next and Read move
\* off; Read on an empty buffer resets it (off = 0); Write appends in place
\* when the capacity allows and otherwise moves the unread bytes to the
\* front of the array or of a new one.

\* n zero bytes: fresh memory.
Zeros(n) == [i \in 1..n |-> 0]

\* copy(arr[at:], p), for at + Len(p) <= Len(arr).
Put(arr, at, p) ==
  [i \in 1..Len(arr) |-> IF i > at /\ i <= at + Len(p) THEN p[i - at] ELSE arr[i]]

\* The ways bytes.Buffer sizes the array it allocates in grow: "exact" is
\* makeSlice(2*cap + n); "append" is growSlice, append([]byte(nil),
\* make([]byte, c)...), whose capacity is rounded up to a size class of the
\* allocator.
Growths == {"exact", "append"}

\* The allocator's size classes, as far as the model's buffers go.
SizeClasses == {8, 16, 24, 32, 48, 64, 80, 96, 112, 128}
SizeClass(c) ==
  IF c > 128 THEN c
  ELSE CHOOSE k \in SizeClasses :
         k >= c /\ \A j \in SizeClasses : j >= c => k <= j

\* The capacity of the array grow allocates for n more bytes, with m unread
\* bytes at offset o of an array of capacity c.
NewCap(policy, c, o, m, n) ==
  IF policy = "exact" THEN 2 * c + n
  ELSE SizeClass(IF m + o + n < 2 * (c - o) THEN 2 * (c - o) ELSE m + o + n)

\* bytes.Buffer.Write(p) on the array arr with read offset o and the unread
\* bytes data: the array and the offset after it (Write, tryGrowByReslice,
\* grow).
BufferWrite(arr, o, data, p, policy) ==
  LET n == Len(p)
      m == Len(data)
      c == Len(arr)
      o1 == IF o # 0 /\ m = 0 THEN 0 ELSE o
  IN  IF n <= c - (o + m)
      THEN [backing |-> Put(arr, o + m, p), off |-> o]
      ELSE IF n <= c - (o1 + m)
      THEN [backing |-> Put(arr, o1 + m, p), off |-> o1]
      ELSE IF n <= (c \div 2) - m
      THEN [backing |-> Put(Put(arr, 0, data), m, p), off |-> 0]
      ELSE [backing |->
              Put(data \o Zeros(NewCap(policy, c, o1, m, n) - m), m, p),
            off |-> 0]

\* The working state of one extraction step.
State(buf, disc, tooLong, toDiscard, failed) ==
  [in |-> buf, discardingTooLongFrame |-> disc, tooLongFrameLength |-> tooLong,
   bytesToDiscard |-> toDiscard, failCalled |-> failed]

\* fail: the body is commented out, so it raises nothing and changes no
\* field; failCalled only records that the hook was reached.
fail(s, frameLength) == [s EXCEPT !.failCalled = TRUE]

\* failIfNecessary: leaves discarding mode once bytesToDiscard is 0, and
\* calls fail where the too-long-frame error is due.
failIfNecessary(s, firstDetectionOfTooLongFrame) ==
  IF s.bytesToDiscard = 0
  THEN LET tooLongFrameLength_ == s.tooLongFrameLength
           s1 == [s EXCEPT !.tooLongFrameLength = 0,
                           !.discardingTooLongFrame = FALSE]
       IN  IF ~failFast \/ firstDetectionOfTooLongFrame
           THEN fail(s1, tooLongFrameLength_) ELSE s1
  ELSE IF failFast /\ firstDetectionOfTooLongFrame
       THEN fail(s, s.tooLongFrameLength) ELSE s

\* localBytesToDiscard after the assignment of line 229.
localBytesToDiscard == 2

\* discardingTooLongFrameFunc: skip localBytesToDiscard bytes (Next skips
\* what is there), subtract localBytesToDiscard from bytesToDiscard.
discardingTooLongFrameFunc(s) ==
  failIfNecessary(
    [s EXCEPT !.in = BufferNext(s.in, localBytesToDiscard),
              !.bytesToDiscard = s.bytesToDiscard - localBytesToDiscard],
    FALSE)

\* getUnadjustedFrameLength: the length field at buf[offset:offset+length].
\* Called with offset <= Len(buf).  ok is "bounds" when the slice expression
\* panics, "unsupported" for a width outside 1, 2, 3, 4, 8.
getUnadjustedFrameLength(buf, offset, length, stale) ==
  LET beyond == offset + length > Len(buf)
      arr == IF beyond
             THEN SubSeq(buf, offset + 1, Len(buf))
                    \o SubSeq(stale.mem, 1, offset + length - Len(buf))
             ELSE SubSeq(buf, offset + 1, offset + length)
  IN  IF beyond /\ ~stale.cap THEN [ok |-> "bounds", value |-> 0]
      ELSE CASE length = 1 -> [ok |-> "ok", value |-> arr[1]]
             [] length = 2 -> [ok |-> "ok", value |-> SignedBigEndian(arr)]
             [] length = 3 -> [ok |-> "ok",
                               value |-> arr[3] + arr[2] * 256 + arr[1] * 65536]
             [] length = 4 -> [ok |-> "ok", value |-> SignedBigEndian(arr)]
             [] length = 8 -> [ok |-> "ok", value |-> SignedBigEndian(arr)]
             [] OTHER -> [ok |-> "unsupported", value |-> 0]

\* exceededFrameLength: drop the oversized frame, or what has arrived of it.
exceededFrameLength(s, frameLength) ==
  LET discard == frameLength - Len(s.in)
      s1 == [s EXCEPT !.tooLongFrameLength = frameLength]
  IN  failIfNecessary(
        IF discard < 0
        THEN [s1 EXCEPT !.in = BufferNext(s1.in, frameLength)]
        ELSE [s1 EXCEPT !.discardingTooLongFrame = TRUE,
                        !.bytesToDiscard = discard,
                        !.in = BufferNext(s1.in, Len(s1.in))],
        TRUE)

\* The outcome of one extraction step: the state it leaves (s), what it
\* returns (ret: "frame", "nil" or "panic"), the frame, the panic (err), and
\* what it saw on the way: the buffer after the discard pre-check (buf),
\* whether the length field was read (read) and past the buffered bytes
\* (beyond), the raw and the adjusted length, and why nil was returned.
Outcome(s, ret, frame, e, why, buf, read, beyond, raw, frameLength) ==
  [s |-> s, ret |-> ret, frame |-> frame, err |-> e, why |-> why, buf |-> buf,
   read |-> read, beyond |-> beyond, raw |-> raw, frameLength |-> frameLength]

\* failOnNegativeLengthField skipping only up to the length field.
failOnNegativeLengthField_SkipsOffset(s, frameLength) ==
  [s EXCEPT !.in = BufferNext(s.in, lengthFieldOffset)]

\* failOnNegativeLengthField: skip the bytes through the length field; the
\* caller then ends in the panic "negative pre-adjustment length field".
failOnNegativeLengthField(s, frameLength) ==
  [s EXCEPT !.in = BufferNext(s.in, lengthFieldEndOffset)]

\* failOnFrameLengthLessThanInitialBytesToStrip skipping initialBytesToStrip
\* bytes instead of the frame.
failOnFrameLengthLessThanInitialBytesToStrip_SkipsStrip(s, frameLength) ==
  [s EXCEPT !.in = BufferNext(s.in, initialBytesToStrip)]

\* failOnFrameLengthLessThanInitialBytesToStrip: skip the frame; the caller
\* then ends in the panic "Adjusted frame length ... is less than
\* initialBytesToStrip".  Called with frameLength >= 0.
failOnFrameLengthLessThanInitialBytesToStrip(s, frameLength) ==
  [s EXCEPT !.in = BufferNext(s.in, frameLength)]

\* extractFrame without the skip of line 388: the frame starts at the header.
extractFrame_KeepsHeader(s, frameLength) ==
  LET actualFrameLength == frameLength - initialBytesToStrip
  IN  [s |-> [s EXCEPT !.in = BufferNext(s.in, actualFrameLength)],
       buff |-> SubSeq(s.in, 1, actualFrameLength)]

\* The frame decode returns: skip initialBytesToStrip bytes, read the next
\* frameLength - initialBytesToStrip bytes (lines 387-397).
extractFrame(s, frameLength) ==
  LET rest == BufferNext(s.in, initialBytesToStrip)
      actualFrameLength == frameLength - initialBytesToStrip
  IN  [s |-> [s EXCEPT !.in = BufferNext(rest, actualFrameLength)],
       buff |-> SubSeq(rest, 1, actualFrameLength)]

\* decodeFrame whose half-packet return first skips the bytes through the
\* length field.
decodeFrame_HalfSkipsHeader(s, raw) ==
  LET frameLength == raw + lengthAdjustment + lengthFieldEndOffset
      beyond == lengthFieldEndOffset > Len(s.in)
      O(s2, ret, frame, e, why) ==
        Outcome(s2, ret, frame, e, why, s.in, TRUE, beyond, raw, frameLength)
  IN  IF frameLength > maxFrameLength
      THEN O(exceededFrameLength(s, frameLength), "nil", <<>>, "none", "tooLong")
      ELSE IF Len(s.in) < frameLength
      THEN O([s EXCEPT !.in = BufferNext(s.in, lengthFieldEndOffset)],
             "nil", <<>>, "none", "half")
      ELSE IF initialBytesToStrip > frameLength
      THEN IF frameLength < 0
           THEN O(s, "panic", <<>>, "bounds", "none")
           ELSE O(failOnFrameLengthLessThanInitialBytesToStrip(s, frameLength),
                  "panic", <<>>, "strip", "none")
      ELSE LET x == extractFrame(s, frameLength)
           IN  O(x.s, "frame", x.buff, "none", "none")

\* decode, from the frame length on (lines 363-397).
decodeFrame(s, raw) ==
  LET frameLength == raw + lengthAdjustment + lengthFieldEndOffset
      beyond == lengthFieldEndOffset > Len(s.in)
      O(s2, ret, frame, e, why) ==
        Outcome(s2, ret, frame, e, why, s.in, TRUE, beyond, raw, frameLength)
  IN  IF frameLength > maxFrameLength
      THEN O(exceededFrameLength(s, frameLength), "nil", <<>>, "none", "tooLong")
      ELSE IF Len(s.in) < frameLength
      THEN O(s, "nil", <<>>, "none", "half")
      ELSE IF initialBytesToStrip > frameLength
      THEN \* failOnFrameLengthLessThanInitialBytesToStrip: Next panics on a
           \* negative count before anything is skipped
           IF frameLength < 0
           THEN O(s, "panic", <<>>, "bounds", "none")
           ELSE O(failOnFrameLengthLessThanInitialBytesToStrip(s, frameLength),
                  "panic", <<>>, "strip", "none")
      ELSE LET x == extractFrame(s, frameLength)
           IN  O(x.s, "frame", x.buff, "none", "none")

\* decode (lines 337-398).
decode(s0, stale) ==
  LET s == IF s0.discardingTooLongFrame
           THEN discardingTooLongFrameFunc(s0) ELSE s0
  IN  IF Len(s.in) < lengthFieldOffset
      THEN Outcome(s, "nil", <<>>, "none", "short", s.in, FALSE, FALSE, 0, 0)
      ELSE LET got == getUnadjustedFrameLength(s.in, lengthFieldOffset,
                                               lengthFieldLength, stale)
               beyond == lengthFieldEndOffset > Len(s.in)
           IN  IF got.ok # "ok"
               THEN Outcome(s, "panic", <<>>, got.ok, "none", s.in, TRUE,
                            beyond, 0, 0)
               ELSE IF got.value < 0
               THEN Outcome(failOnNegativeLengthField(s, got.value),
                            "panic", <<>>, "negative", "none", s.in, TRUE,
                            beyond, got.value, 0)
               ELSE decodeFrame(s, got.value)

\* ------------------------------------------------------------ actions ----
\* The decoder's mutable fields as the working state of a step.
Current ==
  State(in, discardingTooLongFrame, tooLongFrameLength, bytesToDiscard,
        call.failCalled)

\* The record kept of an extraction step: the state before it and its outcome.
StepOf(pre, r) ==
  [pre |-> pre, ret |-> r.ret, frame |-> r.frame, err |-> r.err,
   why |-> r.why, buf |-> r.buf, read |-> r.read, beyond |-> r.beyond,
   raw |-> r.raw, frameLength |-> r.frameLength]

NoStep ==
  StepOf(State(<<>>, FALSE, 0, 0, FALSE),
         Outcome(State(<<>>, FALSE, 0, 0, FALSE), "none", <<>>, "none",
                 "none", <<>>, FALSE, FALSE, 0, 0))

\* NewLengthFieldFrameDecoder called with the arguments c: the fields it
\* sets, the others zero.
Start(c) ==
  /\ maxFrameLength = c.maxFrameLength
  /\ lengthFieldOffset = c.lengthFieldOffset
  /\ lengthFieldLength = c.lengthFieldLength
  /\ lengthAdjustment = c.lengthAdjustment
  /\ initialBytesToStrip = c.initialBytesToStrip
  /\ lengthFieldEndOffset = lengthFieldOffset + lengthFieldLength
  /\ failFast = FALSE
  /\ discardingTooLongFrame = FALSE
  /\ tooLongFrameLength = 0
  /\ bytesToDiscard = 0
  /\ in = <<>>
  /\ pc = "idle"
  /\ resp = <<>>
  /\ fed = <<>>
  /\ out = <<>>
  /\ err = "none"
  /\ call = [chunk |-> 0, buf0 |-> <<>>, disc0 |-> FALSE, prevErr |-> "none",
             failCalled |-> FALSE]
  /\ step = NoStep
  /\ backing = <<>>
  /\ off = 0
  /\ growth \in Growths
  /\ empties = 0
  /\ oversized = [at |-> 0, len |-> 0, beyond |-> FALSE]

Init == \E c \in Configs : Start(c)

\* Decode, up to its loop: Write the chunk, start with an empty resp.  The
\* model feeds at most budget bytes in all, and gives at most MaxEmpty calls
\* an empty chunk.
Feed(buff, budget) ==
  /\ pc = "idle"
  /\ Len(fed) + Len(buff) <= budget
  /\ buff = <<>> => empties < MaxEmpty
  /\ in' = in \o buff
  /\ LET w == BufferWrite(backing, off, in, buff, growth)
     IN  backing' = w.backing /\ off' = w.off
  /\ empties' = IF buff = <<>> THEN empties + 1 ELSE empties
  /\ resp' = <<>>
  /\ pc' = "loop"
  /\ fed' = fed \o buff
  /\ err' = "none"
  /\ call' = [chunk |-> Len(buff), buf0 |-> in \o buff,
              disc0 |-> discardingTooLongFrame, prevErr |-> err,
              failCalled |-> FALSE]
  /\ step' = NoStep
  /\ UNCHANGED <<config, discardingTooLongFrame, tooLongFrameLength,
                 bytesToDiscard, out, growth, oversized>>

Decode(buff) == Feed(buff, MaxFed)

\* What every loop iteration does with the outcome r of its decode call
\* under the read stale.  Next and Read advance the read offset by what they
\* take; the Read of line 394, called on an empty buffer (a frame of no
\* bytes with nothing left behind the stripped ones), resets it.
Stepped(r, stale) ==
  /\ in' = r.s.in
  /\ discardingTooLongFrame' = r.s.discardingTooLongFrame
  /\ tooLongFrameLength' = r.s.tooLongFrameLength
  /\ bytesToDiscard' = r.s.bytesToDiscard
  /\ call' = [call EXCEPT !.failCalled = r.s.failCalled]
  /\ step' = StepOf(Current, r)
  /\ off' = IF r.ret = "frame" /\ r.frame = <<>> /\ r.s.in = <<>>
            THEN 0                       \* Read on the empty buffer: Reset
            ELSE off + Len(in) - Len(r.s.in)
  /\ oversized' = IF r.why = "tooLong"
                  THEN [at |-> Len(fed) - Len(r.buf), len |-> r.frameLength,
                        beyond |-> r.beyond]
                  ELSE oversized
  /\ UNCHANGED <<config, fed, backing, growth, empties>>

\* The read past the buffer the next decode call makes: the length field
\* ends need bytes behind the bytes the discard pre-check leaves (r.buf),
\* which start at offset o of the array.
Stales ==
  LET r == decode(Current, NoStale)
      o == off + Len(in) - Len(r.buf)
      need == lengthFieldEndOffset - Len(r.buf)
  IN  IF ~r.beyond \/ Len(backing) < o + lengthFieldEndOffset
      THEN {NoStale}
      ELSE {[cap |-> TRUE,
             mem |-> SubSeq(backing, o + Len(r.buf) + 1,
                            o + lengthFieldEndOffset)]}

\* A loop iteration in which decode returns a frame: append it, loop again.
ExtractFrame ==
  /\ pc = "loop"
  /\ Len(resp) < MaxResp
  /\ \E stale \in Stales :
       LET r == decode(Current, stale)
       IN  /\ r.ret = "frame"
           /\ Stepped(r, stale)
           /\ resp' = Append(resp,
                [at |-> Len(fed) - Len(r.buf) + initialBytesToStrip,
                 data |-> r.frame])
  /\ UNCHANGED <<pc, out, err>>

\* A loop iteration in which decode returns nil: Decode returns resp.
ReturnResp ==
  /\ pc = "loop"
  /\ \E stale \in Stales :
       LET r == decode(Current, stale)
       IN  /\ r.ret = "nil"
           /\ Stepped(r, stale)
  /\ pc' = "idle"
  /\ out' = out \o resp
  /\ err' = "none"
  /\ UNCHANGED resp

\* A loop iteration in which decode panics: the panic leaves Decode, the
\* caller gets no list; err names the panic.
PanicOut ==
  /\ pc = "loop"
  /\ \E stale \in Stales :
       LET r == decode(Current, stale)
       IN  /\ r.ret = "panic"
           /\ Stepped(r, stale)
           /\ err' = r.err
  /\ pc' = "idle"
  /\ UNCHANGED <<resp, out>>

Next ==
  \/ \E buff \in SeqsUpTo(ByteVals, MaxFed) : Decode(buff)
  \/ ExtractFrame
  \/ ReturnResp
  \/ PanicOut

Spec == Init /\ [][Next]_vars

\* A second specification: one decoder with maxFrameLength 1 fed up to
\* MaxFlood bytes that are lengths 0 (a one-byte frame) and 1 (an oversized
\* two-byte frame).
MaxFlood == 6
FloodBytes == {0, 1}

InitFlood == Init /\ maxFrameLength = 1 /\ lengthAdjustment = 0

NextFlood ==
  \/ \E buff \in SeqsUpTo(FloodBytes, MaxFlood) : Feed(buff, MaxFlood)
  \/ ExtractFrame
  \/ ReturnResp
  \/ PanicOut

SpecFlood == InitFlood /\ [][NextFlood]_vars

\* A third specification, for the length field alone: decoders of every
\* field width the switch of getUnadjustedFrameLength names, and of width 5,
\* which it rejects; each has one header byte before the field and is given
\* one chunk, that byte and a length field.  A field of width 8 is drawn
\* with its five leading bytes alike (all 0 or all 255), so that its value
\* fits the integers of the model.
FieldWidths == {1, 2, 3, 4, 5, 8}
FieldBytes == {0, 1, 128, 255}
FieldConfigs == {Config(w + 1, 1, w, 0, 0) : w \in FieldWidths}

Fields(w) ==
  IF w < 8 THEN [1..w -> FieldBytes]
  ELSE {<<b, b, b, b, b>> \o g : b \in {0, 255}, g \in [1..3 -> FieldBytes]}

InitField == \E c \in FieldConfigs : Start(c)

NextField ==
  \/ \E f \in Fields(lengthFieldLength) : Feed(<<0>> \o f, lengthFieldEndOffset)
  \/ ExtractFrame
  \/ ReturnResp
  \/ PanicOut

SpecField == InitField /\ [][NextField]_vars

\* ------------------------------------------- the stream as it is meant ----
\* The notions the properties below are stated with: the length field, the
\* frame at the front of a buffer, and the frames of a byte stream, read as
\* the decoder's description reads them (from buffered bytes only).

\* The value of a fully buffered length field at the front of buf.
FieldValue(buf) ==
  LET f == SubSeq(buf, lengthFieldOffset + 1, lengthFieldEndOffset)
  IN  IF lengthFieldLength \in {2, 4, 8}
      THEN Signed(BigEndian(f), 8 * lengthFieldLength)
      ELSE BigEndian(f)

FrameLengthOf(buf) == FieldValue(buf) + lengthAdjustment + lengthFieldEndOffset

\* buf holds a whole length field.
HeaderAhead(buf) == Len(buf) >= lengthFieldEndOffset

\* buf begins with a complete frame within maxFrameLength that can be
\* stripped.
FrameAhead(buf) ==
  /\ HeaderAhead(buf)
  /\ FieldValue(buf) >= 0
  /\ initialBytesToStrip <= FrameLengthOf(buf)
  /\ FrameLengthOf(buf) <= maxFrameLength
  /\ Len(buf) >= FrameLengthOf(buf)

\* The payload of the frame buf begins with.
FramePayload(buf) == SubSeq(buf, initialBytesToStrip + 1, FrameLengthOf(buf))

\* The items of the stream bytes from offset p on: frames, oversized frames
\* ("tooLong", which may end past the bytes fed so far), rejected fields and
\* frames ("negative", "strip"), a frame shorter than its header
\* ("degenerate", where reading stops) and an unfinished tail ("partial").
Item(kind, at, len) == [kind |-> kind, at |-> at, len |-> len]
RECURSIVE Frames(_, _)
Frames(bytes, p) ==
  LET rest == Drop(bytes, p)
      fl == FrameLengthOf(rest)
  IN  IF rest = <<>> THEN <<>>
      ELSE IF ~HeaderAhead(rest) THEN <<Item("partial", p, Len(rest))>>
      ELSE IF FieldValue(rest) < 0
      THEN <<Item("negative", p, lengthFieldEndOffset)>>
             \o Frames(bytes, p + lengthFieldEndOffset)
      ELSE IF fl > maxFrameLength
      THEN <<Item("tooLong", p, fl)>>
             \o (IF fl >= Len(rest) THEN <<>> ELSE Frames(bytes, p + fl))
      ELSE IF fl < lengthFieldEndOffset THEN <<Item("degenerate", p, fl)>>
      ELSE IF Len(rest) < fl THEN <<Item("partial", p, Len(rest))>>
      ELSE IF initialBytesToStrip > fl
      THEN <<Item("strip", p, fl)>> \o Frames(bytes, p + fl)
      ELSE <<Item("frame", p, fl)>> \o Frames(bytes, p + fl)

Kinds(bytes) == {Frames(bytes, 0)[i].kind : i \in DOMAIN Frames(bytes, 0)}

\* A concatenation of frames, none oversized; and a prefix of one.
WellFormed(bytes) == Kinds(bytes) \subseteq {"frame"}
Clean(bytes) == Kinds(bytes) \subseteq {"frame", "partial"}

\* The payloads of the frames of the stream, in order.
Payloads(bytes) ==
  LET fs == SelectSeq(Frames(bytes, 0), LAMBDA x : x.kind = "frame")
  IN  [i \in DOMAIN fs |->
         SubSeq(bytes, fs[i].at + initialBytesToStrip + 1, fs[i].at + fs[i].len)]

\* The stream offsets of the bytes of oversized frames.
OversizedBytes(bytes) ==
  UNION {fr.at .. (fr.at + fr.len - 1) :
           fr \in {Frames(bytes, 0)[i] : i \in {j \in DOMAIN Frames(bytes, 0) :
                                             Frames(bytes, 0)[j].kind = "tooLong"}}}

Data(frames) == [i \in DOMAIN frames |-> frames[i].data]

\* Bytes taken from the front of the buffer so far.
Consumed == Len(fed) - Len(in)

\* A step has run since the last Write.
Stepped1 == step.ret # "none"

ModeConsistent ==
  /\ bytesToDiscard >= 0
  /\ discardingTooLongFrame <=> bytesToDiscard > 0
  /\ ~discardingTooLongFrame => tooLongFrameLength = 0

\* ------------------------------------------------------------- claims ----
\* C1: feeding a well-formed stream in any chunks yields, over the calls,
\* the payloads of its frames in order (what one call on the whole stream
\* is to yield), and no call ends in an error.
C1_ChunkingEquivalence ==
  pc = "idle" =>
    /\ Clean(fed) => err = "none"
    /\ WellFormed(fed) => Data(out) = Payloads(fed)

\* C2: an extraction step that finds the buffer beginning with a complete
\* frame (non-negative length field, initialBytesToStrip <= frameLength <=
\* maxFrameLength) returns bytes [initialBytesToStrip, frameLength) of the
\* buffer and removes exactly its first frameLength bytes.  The buffer is
\* the one the step parses: in normal mode the buffer the step starts with.
C2_ExtractsFrame ==
  (Stepped1 /\ FrameAhead(step.buf)) =>
    /\ step.ret = "frame"
    /\ step.frame = FramePayload(step.buf)
    /\ in = Drop(step.buf, FrameLengthOf(step.buf))

\* C2 witness: a 2-byte length field 0x0001 and one content byte, stripped
\* of its header, with a further byte left in the buffer.
C2_Witness ==
  /\ step.ret = "frame"
  /\ ~step.pre.discardingTooLongFrame
  /\ lengthFieldLength = 2 /\ initialBytesToStrip = 2
  /\ step.pre.in = <<0, 1, 128, 1>>
  /\ step.frame = <<128>>
  /\ in = <<1>>

\* C3: no payload returned by Decode contains a byte of an oversized frame.
C3_OversizedNeverReturned ==
  \A i \in DOMAIN out :
      \A k \in out[i].at .. (out[i].at + Len(out[i].data) - 1) :
        k \notin OversizedBytes(fed)

\* C4: once an oversized frame of length frameLength is detected the decoder
\* drops exactly frameLength bytes from where the frame starts: while it is
\* discarding, what it has taken plus bytesToDiscard ends at the frame's
\* end, and it is not discarding only once the whole frame is taken.
C4_DropsExactlyFrameLength ==
  (pc = "idle" /\ oversized.len > 0 /\ ~oversized.beyond) =>
    IF discardingTooLongFrame
    THEN /\ bytesToDiscard > 0
         /\ Consumed + bytesToDiscard = oversized.at + oversized.len
    ELSE Consumed >= oversized.at + oversized.len

\* C5: an extraction step with fewer than lengthFieldEndOffset bytes to
\* parse reports incomplete: it reads no length field, returns nil without
\* an error and leaves the buffer as it is.
C5_ShortBufferIncomplete ==
  (Stepped1 /\ ~HeaderAhead(step.buf)) =>
    /\ ~step.read
    /\ step.ret = "nil"
    /\ in = step.buf

\* C6: an extraction step that finds a negative length field at the front of
\* the buffer removes exactly lengthFieldEndOffset bytes, ends in the
\* negative-length-field error, and returns no frame; Decode ends with it.
C6_NegativeLengthField ==
  (Stepped1 /\ HeaderAhead(step.buf) /\ FieldValue(step.buf) < 0) =>
    /\ step.ret = "panic" /\ step.err = "negative"
    /\ step.frame = <<>>
    /\ in = Drop(step.buf, lengthFieldEndOffset)
    /\ pc = "idle" /\ err = "negative"

\* C6 witness: the field 0x8000 with two more bytes behind it, rejected.
C6_Witness ==
  /\ step.err = "negative"
  /\ step.buf = <<128, 0, 0, 1>>
  /\ in = <<0, 1>>
  /\ err = "negative"

\* C7: after a Decode call that ended in a per-frame error the mode fields
\* are consistent and the buffer lost exactly the offending bytes, and the
\* next call, if its buffer begins with a well-formed frame, returns that
\* frame's payload first.
PerFrameErrors == {"negative", "strip"}
C7_ErrorsArePerFrame ==
  pc = "idle" =>
    /\ err \in PerFrameErrors =>
         /\ ModeConsistent
         /\ in = Drop(step.buf, IF err = "negative" THEN lengthFieldEndOffset
                                ELSE step.frameLength)
    /\ (call.prevErr \in PerFrameErrors /\ ~call.disc0 /\ FrameAhead(call.buf0)) =>
         /\ err = "none"
         /\ resp # <<>>
         /\ resp[1].data = FramePayload(call.buf0)

\* C8: the call in which the too-long-frame error is due (fail is reached:
\* with failFast off, the call that discards the last byte of the oversized
\* frame) ends in that error.
C8_TooLongReported ==
  (pc = "idle" /\ call.failCalled) => err = "tooLong"

\* C9: when a Decode call returns, the buffer holds at most maxFrameLength
\* bytes plus the length of the chunk of that call.
C9_BufferBounded ==
  (pc = "idle" /\ err = "none") => Len(in) <= maxFrameLength + call.chunk

\* C10: when Decode returns normally and the decoder is not discarding, the
\* buffer does not begin with a complete well-formed frame.
C10_NoFrameLeftBehind ==
  (pc = "idle" /\ err = "none" /\ ~discardingTooLongFrame) =>
    ~FrameAhead(in)

\* C11: in every state the buffer is the suffix of the bytes fed so far that
\* starts where the consumed bytes end: the first Consumed bytes of fed
\* followed by the buffer are fed, in order.
C11_BufferIsSuffix ==
  /\ Len(in) <= Len(fed)
  /\ SubSeq(fed, 1, Consumed) \o in = fed

\* C11 witness: a frame was taken from the front of a 4-byte input that is
\* not all alike, and its last two bytes are still buffered.
C11_Witness ==
  /\ fed = <<0, 1, 128, 0>>
  /\ in = <<128, 0>>
  /\ step.ret = "frame"

\* C12: the discard pre-check of a step that starts in discarding mode
\* drops min(bytesToDiscard, buffered length) bytes from the front, takes
\* that many off bytesToDiscard, and leaves discarding mode exactly when
\* bytesToDiscard is then 0; while bytesToDiscard is still positive the step
\* returns nil without reading a length field.
C12_DiscardPreCheck ==
  (Stepped1 /\ step.pre.discardingTooLongFrame) =>
    LET n == Min(step.pre.bytesToDiscard, Len(step.pre.in))
        post == discardingTooLongFrameFunc(step.pre)
    IN  /\ post.in = Drop(step.pre.in, n)
        /\ post.bytesToDiscard = step.pre.bytesToDiscard - n
        /\ post.discardingTooLongFrame <=> post.bytesToDiscard # 0
        /\ post.bytesToDiscard > 0 => (~step.read /\ step.ret = "nil")

\* C13: between Decode calls bytesToDiscard is not negative, the decoder is
\* discarding exactly while bytesToDiscard is positive, and
\* tooLongFrameLength is 0 when it is not discarding.
C13_ModeFieldsConsistent == pc = "idle" => ModeConsistent

\* C14: a step in normal mode that finds a whole, non-negative length field
\* giving frameLength <= maxFrameLength with fewer than frameLength bytes
\* buffered returns nil, ends the Decode call without an error, and leaves
\* the buffer, discardingTooLongFrame, bytesToDiscard and tooLongFrameLength
\* as they were; and a call in normal mode whose buffer begins with a
\* complete frame, whatever earlier calls saw of it, returns that frame first.
C14_HalfPacketRetryable ==
  /\ (/\ Stepped1
      /\ ~step.pre.discardingTooLongFrame
      /\ HeaderAhead(step.pre.in)
      /\ FieldValue(step.pre.in) >= 0
      /\ FrameLengthOf(step.pre.in) <= maxFrameLength
      /\ Len(step.pre.in) < FrameLengthOf(step.pre.in)) =>
       /\ step.ret = "nil" /\ step.frame = <<>>
       /\ pc = "idle" /\ err = "none"
       /\ in = step.pre.in
       /\ discardingTooLongFrame = step.pre.discardingTooLongFrame
       /\ bytesToDiscard = step.pre.bytesToDiscard
       /\ tooLongFrameLength = step.pre.tooLongFrameLength
  /\ (Stepped1 /\ ~call.disc0 /\ FrameAhead(call.buf0)) =>
       (resp # <<>> /\ resp[1].data = FramePayload(call.buf0))

\* C14 witness: the 2-byte length field 0x0001 of a 3-byte frame is
\* buffered, its content byte is not; the step left the two bytes in place.
C14_Witness ==
  /\ lengthFieldLength = 2
  /\ ~step.pre.discardingTooLongFrame
  /\ step.pre.in = <<0, 1>>
  /\ step.why = "half"
  /\ in = <<0, 1>>
  /\ pc = "idle"

\* C15: a step that detects frameLength > maxFrameLength with n bytes to
\* parse returns no payload and: if n > frameLength, drops exactly
\* frameLength bytes and leaves the decoder in normal mode with
\* bytesToDiscard = 0; otherwise empties the buffer and, when frameLength > n,
\* leaves it discarding with bytesToDiscard = frameLength - n and
\* tooLongFrameLength = frameLength.
C15_ExceededFrameLength ==
  (Stepped1 /\ step.why = "tooLong") =>
    LET n == Len(step.buf)
        frameLength == step.frameLength
    IN  /\ step.ret = "nil" /\ step.frame = <<>>
        /\ IF n > frameLength
           THEN /\ in = Drop(step.buf, frameLength)
                /\ ~discardingTooLongFrame
                /\ bytesToDiscard = 0
           ELSE /\ in = <<>>
                /\ frameLength > n =>
                     /\ discardingTooLongFrame
                     /\ bytesToDiscard = frameLength - n
                     /\ tooLongFrameLength = frameLength

\* C16: a step that finds a complete frame (whole, non-negative length
\* field, frameLength <= maxFrameLength, frameLength bytes buffered) with
\* initialBytesToStrip > frameLength removes exactly the frame's frameLength
\* bytes, ends in the strip error and returns no payload; Decode ends with
\* that error and what follows the frame is at the front of the buffer.
C16_StripExceedsFrame ==
  (/\ Stepped1
   /\ HeaderAhead(step.buf)
   /\ FieldValue(step.buf) >= 0
   /\ FrameLengthOf(step.buf) <= maxFrameLength
   /\ Len(step.buf) >= FrameLengthOf(step.buf)
   /\ FrameLengthOf(step.buf) >= 0
   /\ initialBytesToStrip > FrameLengthOf(step.buf)) =>
    /\ step.ret = "panic" /\ step.err = "strip"
    /\ step.frame = <<>>
    /\ in = Drop(step.buf, FrameLengthOf(step.buf))
    /\ pc = "idle" /\ err = "strip"

\* C16 witness: strip 2, a 1-byte frame (length field 0) followed by two
\* more bytes; the frame is gone and the two bytes are at the front.
C16_Witness ==
  /\ initialBytesToStrip = 2
  /\ step.buf = <<0, 1, 128>>
  /\ step.frameLength = 1
  /\ step.err = "strip"
  /\ in = <<1, 128>>
  /\ err = "strip"

\* C17: every extraction step that returns a payload removes at least one
\* byte from the buffer, so that the loop of Decode runs at most once per
\* buffered byte before a step returns nil.
C17_FrameStepConsumes ==
  step.ret = "frame" => Len(in) < Len(step.pre.in)

\* C18: the frames a Decode call extracted before one of its steps ended in
\* a per-frame error (a negative length field or strip exceeding the frame,
\* read from buffered bytes) are returned to the caller: none is left in the
\* call's list when the call has ended.
C18_NoFrameLost ==
  (pc = "idle" /\ err \in PerFrameErrors /\ ~step.beyond) =>
    resp = <<>>

\* C19: a step that computes frameLength < lengthFieldEndOffset extracts no
\* frame and consumes nothing, and every frame a step returns or drops
\* (oversized, or shorter than initialBytesToStrip) has
\* frameLength >= lengthFieldEndOffset >= 0.
C19_FrameCoversHeader ==
  /\ lengthFieldEndOffset >= 0
  /\ (Stepped1 /\ step.read /\ ~step.beyond) =>
       /\ (step.ret = "frame" \/ step.why = "tooLong" \/ step.err = "strip") =>
            step.frameLength >= lengthFieldEndOffset
       /\ (step.raw >= 0 /\ step.raw + lengthAdjustment < 0) =>
            (step.ret # "frame" /\ in = step.buf)

\* The weight the top bit of a most significant byte takes off its value.
SignBit(b) == IF b >= 128 THEN 256 ELSE 0

\* C20: the raw value of a length field read from buffered bytes f is, for
\* width 1, the byte (0..255); for width 3, f[1]*65536 + f[2]*256 + f[3]
\* (never negative); for widths 2, 4 and 8, the two's-complement value of
\* the bytes, most significant first, and a field with its top bit set is
\* negative and ends the step in the negative-length error.  (A field of
\* width 8 here extends the sign of its lower four bytes.)
C20_RawFieldValue ==
  (/\ Stepped1 /\ step.read /\ ~step.beyond
   /\ lengthFieldLength \in {1, 2, 3, 4, 8}) =>
    LET w == lengthFieldLength
        f == SubSeq(step.buf, lengthFieldOffset + 1, lengthFieldEndOffset)
        g == SubSeq(f, w - 3, w)
        raw == step.raw
    IN  /\ step.err \notin {"bounds", "unsupported"}
        /\ w = 1 => (raw = f[1] /\ raw \in 0..255)
        /\ w = 3 => (raw = f[1] * 65536 + f[2] * 256 + f[3] /\ raw >= 0)
        /\ w = 2 => raw = f[1] * 256 + f[2] - 256 * SignBit(f[1])
        /\ w \in {4, 8} =>
             raw = (g[1] - SignBit(g[1])) * 16777216
                     + g[2] * 65536 + g[3] * 256 + g[4]
        /\ w \in {1, 3} => step.err # "negative"
        /\ w \in {2, 4, 8} =>
             IF f[1] >= 128
             THEN raw < 0 /\ step.ret = "panic" /\ step.err = "negative"
             ELSE raw >= 0 /\ step.err # "negative"

\* C20 witness: the 2-byte field 0x8000 read as -32768 and rejected.
C20_Witness ==
  /\ lengthFieldLength = 2
  /\ step.buf = <<0, 128, 0>>
  /\ step.raw = -32768
  /\ step.err = "negative"

====
